---- MODULE Spec2Model ----
(***************************************************************************)
(* Model of the DAC8571 driver (dac8571.c / dac8571.h).                    *)
(*                                                                         *)
(* The state is one device handle (DAC8571_HandleTypeDef), the data        *)
(* register of the device behind the bus and a record of the last API      *)
(* call: its arguments, what it returned and every bus transaction it      *)
(* issued. Every API function is one action; the outcome of each HAL       *)
(* transaction and the BUSY flag of the peripheral are inputs chosen by    *)
(* the environment.                                                        *)
(***************************************************************************)
EXTENDS Integers, Sequences, FiniteSets, TLC

VARIABLES hdac8571, devReg, call

vars == <<hdac8571, devReg, call>>

(***************************************************************************)
(* Program constants (dac8571.h)                                           *)
(***************************************************************************)
DAC8571_OK == 0
DAC8571_I2C_ERROR == 129
DAC8571_ADDRESS_ERROR == 130
DAC8571_BUFFER_ERROR == 131

DAC8571_CMD_WRITE_TMP == 0
DAC8571_CMD_WRITE_TMP_PWDN == 1
DAC8571_CMD_WRITE_AND_UPDATE_DAC == 16
DAC8571_CMD_WRITE_UPDATE_PWDN == 17
DAC8571_CMD_UPDATE_FROM_TMP == 32
DAC8571_CMD_BROADCAST_WRITE_TMP == 48
DAC8571_CMD_BROADCAST_WRITE_UPDATE == 49
DAC8571_CMD_BROADCAST_PWDN_ALL == 51

DAC8571_PD_LOW_POWER == 0
DAC8571_PD_FAST == 1
DAC8571_PD_1_KOHM == 2
DAC8571_PD_100_KOHM == 3
DAC8571_PD_HI_Z == 4

\* The two addresses DAC8571_Init accepts (0x4C, 0x4E).
ADDR_A0_LOW == 76
ADDR_A0_HIGH == 78

\* DAC8571_Init's probe loop.
max_attempts == 5
retry_delay_ms == 25

\* The frame-count ceiling of DAC8571_WriteArray.
MAX_ARRAY_LENGTH == 14

\* uint8_t and uint16_t moduli.
U8 == 256
U16 == 65536

\* DAC8571_REF_VOLTAGE is 2.5 V = REF_VOLTAGE_NUM / REF_VOLTAGE_DEN, and the
\* full scale code of DAC8571_SetVoltage is 65535.
REF_VOLTAGE_NUM == 5
REF_VOLTAGE_DEN == 2
FULL_SCALE == 65535

(***************************************************************************)
(* HAL_StatusTypeDef, by the names HAL_StatusToString gives the values.    *)
(***************************************************************************)
HAL_OK == "HAL_OK"
HAL_ERROR == "HAL_ERROR"
HAL_BUSY == "HAL_BUSY"
HAL_TIMEOUT == "HAL_TIMEOUT"

HAL_Status == {HAL_OK, HAL_ERROR, HAL_BUSY, HAL_TIMEOUT}

\* The answers the environment gives to a transaction: success and two of
\* the failures (the driver tells no failure from another).
FailureInputs == {HAL_ERROR, HAL_TIMEOUT}
StatusInputs == {HAL_OK} \cup FailureInputs

\* The failure offered to the transmits of DAC8571_WriteArray (not HAL_ERROR,
\* which the function returns by itself when it rejects its arguments).
ArrayFailureInputs == {HAL_TIMEOUT}

\* No status: the function returns no HAL_StatusTypeDef.
NO_STATUS == "-"

\* Null pointers and the one I2C peripheral handle of the host.
NULL == "NULL"
I2C1 == "hi2c1"

(***************************************************************************)
(* Bounds of the inputs                                                    *)
(***************************************************************************)
\* Array lengths offered to DAC8571_WriteArray: the short ones, 0..MaxShort,
\* and the ones from the ceiling on, MAX_ARRAY_LENGTH..MaxLength.
MaxShort == 2
MaxLength == 15

Lengths == (0..MaxShort) \cup (MAX_ARRAY_LENGTH..MaxLength)

\* 16-bit codes offered to Write and WakeUp: 0x1234 (two different bytes).
\* Reset writes 0x0000, SetVoltage and WriteArray write 0xFFFF as well.
Values == {4660}

\* Voltages offered to SetVoltage, each a fraction <<numerator, denominator>>
\* of a volt with a power of two as denominator (every float is one):
\* -1/8 V, 0 V, 1.25 V, 2.5 V, 2.625 V.
Voltages == { <<-1, 8>>, <<0, 1>>, <<5, 4>>, <<5, 2>>, <<21, 8>> }

\* The 8 command bytes.
CommandCodes ==
    { DAC8571_CMD_WRITE_TMP, DAC8571_CMD_WRITE_TMP_PWDN,
      DAC8571_CMD_WRITE_AND_UPDATE_DAC, DAC8571_CMD_WRITE_UPDATE_PWDN,
      DAC8571_CMD_UPDATE_FROM_TMP, DAC8571_CMD_BROADCAST_WRITE_TMP,
      DAC8571_CMD_BROADCAST_WRITE_UPDATE, DAC8571_CMD_BROADCAST_PWDN_ALL }

\* Modes offered to SetWriteMode: the 8 command bytes and bytes that are not
\* (between the enumerated ones and above them).
ModeInputs == CommandCodes \cup {2, 50}

\* Power-down modes offered to PowerMode: the 5 modes and two that are not.
PowerDownModes ==
    { DAC8571_PD_LOW_POWER, DAC8571_PD_FAST, DAC8571_PD_1_KOHM,
      DAC8571_PD_100_KOHM, DAC8571_PD_HI_Z }

PdInputs == PowerDownModes \cup {5, 255}

\* The (transport, address) pairs offered to Init: the transport with the two
\* valid addresses and the one between them, and a null transport.
AddressInputs == {ADDR_A0_LOW, 77, ADDR_A0_HIGH}
InitInputs == {<<NULL, ADDR_A0_LOW>>} \cup {<<I2C1, a>> : a \in AddressInputs}

\* The caller's array offered to WriteArray: 0x1234, 0xFFFF, 0x0000, repeated
\* to fill MAX_ARRAY_LENGTH words (neighbours differ, so the order shows).
\* Element i of the C array is testArray[i + 1].
testArray ==
    [ i \in 1..MAX_ARRAY_LENGTH |->
        IF i % 3 = 1 THEN 4660 ELSE IF i % 3 = 2 THEN 65535 ELSE 0 ]

\* The words an array pointer points at, and the (array, length) pairs offered
\* to WriteArray: the array with each length, and a null pointer.
TEST_ARRAY == "testArray"
Elements(arr) == testArray
ArrayInputs == {<<NULL, 1>>} \cup {<<TEST_ARRAY, n>> : n \in Lengths}

\* The third byte of a receive is the device's control byte; the driver
\* never reads it.
ThirdBytes == {0, 255}

(***************************************************************************)
(* The record of the last API call                                         *)
(***************************************************************************)
\* op      the function called
\* hnull   the handle argument was a null pointer
\* a1, a2  the other arguments (0 when there is none)
\* status  the HAL_StatusTypeDef returned (NO_STATUS when there is none)
\* ret     the integer returned (0 when there is none)
\* tx      the frames transmitted, in order: each <<bus address, bytes>>
\* sts     the status of each transmit, in order
\* rx      the bytes received (<<>> when nothing was received)
\* probes  the status of each presence probe, in order
\* delays  the HAL_Delay calls, in order: the delay asked for (ms) and the
\*         number of presence probes made before it (after)
\* cleared the BUSY flag of the peripheral was found set and cleared
Call(op, hnull, a1, a2, status, ret) ==
    [ op |-> op, hnull |-> hnull, a1 |-> a1, a2 |-> a2, status |-> status,
      ret |-> ret, tx |-> <<>>, sts |-> <<>>, rx |-> <<>>, probes |-> <<>>,
      delays |-> <<>>, cleared |-> FALSE ]

(***************************************************************************)
(* Initial state: a zero-initialized handle, a cleared device register, no *)
(* call made yet.                                                          *)
(***************************************************************************)
ZeroHandle ==
    [ hi2c |-> NULL, address |-> 0, lastValue |-> 0, writeMode |-> 0,
      lastError |-> 0 ]

Init ==
    /\ hdac8571 = ZeroHandle
    /\ devReg = <<0, 0>>
    /\ call = Call("none", FALSE, 0, 0, NO_STATUS, 0)

(***************************************************************************)
(* The machine a call runs on: the handle, the bus and the call's record.  *)
(***************************************************************************)
Enter(op, hnull, a1, a2) ==
    [ h |-> hdac8571, devReg |-> devReg,
      c |-> Call(op, hnull, a1, a2, NO_STATUS, 0) ]

Return(m, status, ret) == [m EXCEPT !.c.status = status, !.c.ret = ret]

Commit(m) ==
    /\ hdac8571' = m.h
    /\ devReg' = m.devReg
    /\ call' = m.c

\* The bus address handed to the HAL: address << 1, a uint16_t.
DevAddress(h) == (h.address * 2) % U16

(***************************************************************************)
(* The I2C peripheral and the device behind it. Each transaction ends with *)
(* the status st the environment chooses. A transmit that succeeds loads   *)
(* the two data bytes of the frame into the device's data register; a      *)
(* receive that succeeds returns that register and a third byte.           *)
(***************************************************************************)
HAL_I2C_Master_Transmit(m, addr, buffer, st) ==
    [ m EXCEPT !.c.tx = Append(@, <<addr, buffer>>),
               !.c.sts = Append(@, st),
               !.devReg = IF st = HAL_OK THEN <<buffer[2], buffer[3]>> ELSE @ ]

HAL_I2C_Master_Receive(m, addr, third, st) ==
    [ m EXCEPT !.c.rx = IF st = HAL_OK
                        THEN <<m.devReg[1], m.devReg[2], third>>
                        ELSE <<>>,
               !.c.sts = Append(@, st) ]

HAL_I2C_IsDeviceReady(m, addr, st) ==
    [ m EXCEPT !.c.probes = Append(@, st) ]

HAL_Delay(m, ms) ==
    [m EXCEPT !.c.delays = Append(@, [after |-> Len(m.c.probes), ms |-> ms])]

(***************************************************************************)
(* The driver's functions, each from a machine to the machine it leaves.   *)
(***************************************************************************)
\* uint8_t buffer[3] = {writeMode, (uint8_t)(value >> 8), (uint8_t)(value & 0xFF)}
Buffer(writeMode, value) == <<writeMode, (value \div U8) % U8, value % U8>>

\* A faulty variant: lastValue is stored before the status is looked at.
DAC8571_Write_StoresBeforeStatus(m, value, st) ==
    IF m.c.hnull THEN Return(m, HAL_ERROR, 0)
    ELSE
    LET m1 == HAL_I2C_Master_Transmit(m, DevAddress(m.h),
                                      Buffer(m.h.writeMode, value), st)
        m2 == [m1 EXCEPT !.h.lastValue = value]
    IN  IF st # HAL_OK
        THEN Return([m2 EXCEPT !.h.lastError = DAC8571_I2C_ERROR], st, 0)
        ELSE Return([m2 EXCEPT !.h.lastError = DAC8571_OK], HAL_OK, 0)

DAC8571_Write(m, value, st) ==
    IF m.c.hnull THEN Return(m, HAL_ERROR, 0)
    ELSE
    LET m1 == HAL_I2C_Master_Transmit(m, DevAddress(m.h),
                                      Buffer(m.h.writeMode, value), st)
    IN  IF st # HAL_OK
        THEN Return([m1 EXCEPT !.h.lastError = DAC8571_I2C_ERROR], st, 0)
        ELSE Return([m1 EXCEPT !.h.lastValue = value,
                               !.h.lastError = DAC8571_OK], HAL_OK, 0)

DAC8571_IsConnected(m, st) ==
    IF m.c.hnull THEN Return(m, HAL_ERROR, 0)
    ELSE
    LET m1 == HAL_I2C_IsDeviceReady(m, DevAddress(m.h), st)
    IN  IF st # HAL_OK
        THEN Return([m1 EXCEPT !.h.lastError = DAC8571_I2C_ERROR], st, 0)
        ELSE Return(m1, st, 0)

\* A faulty variant: no delay after the last attempt.
RECURSIVE ProbeLoop_NoDelayAfterLast(_, _, _)
ProbeLoop_NoDelayAfterLast(m, attempt, outcome) ==
    IF attempt > max_attempts THEN m
    ELSE LET m1 == DAC8571_IsConnected(m, outcome[attempt])
         IN  IF m1.c.status = HAL_OK
             THEN m1
             ELSE ProbeLoop_NoDelayAfterLast(
                      IF attempt < max_attempts
                      THEN HAL_Delay(m1, retry_delay_ms) ELSE m1,
                      attempt + 1, outcome)

\* The probe loop of DAC8571_Init from attempt on; outcome[k] is the status
\* probe k ends with.
RECURSIVE ProbeLoop(_, _, _)
ProbeLoop(m, attempt, outcome) ==
    IF attempt > max_attempts THEN m
    ELSE LET m1 == DAC8571_IsConnected(m, outcome[attempt])
         IN  IF m1.c.status = HAL_OK
             THEN m1
             ELSE ProbeLoop(HAL_Delay(m1, retry_delay_ms), attempt + 1, outcome)

\* (address != 0x4C) && (address != 0x4E) is the rejection.
ValidAddress(address) == address = ADDR_A0_LOW \/ address = ADDR_A0_HIGH

\* A faulty variant: writeMode is not set back to its default.
DAC8571_Init_KeepsWriteMode(m, hi2c, address, flag, outcome) ==
    IF m.c.hnull \/ hi2c = NULL THEN m
    ELSE IF ~ValidAddress(address) THEN m
    ELSE
    LET m1 == [m EXCEPT !.h = [ hi2c |-> hi2c, address |-> address,
                                lastValue |-> 0,
                                writeMode |-> m.h.writeMode,
                                lastError |-> DAC8571_OK ]]
        m2 == IF flag THEN [m1 EXCEPT !.c.cleared = TRUE] ELSE m1
    IN  Return(ProbeLoop(m2, 1, outcome), NO_STATUS, 0)

\* flag: __HAL_I2C_GET_FLAG(hi2c, I2C_FLAG_BUSY) when Init asks.
DAC8571_Init(m, hi2c, address, flag, outcome) ==
    IF m.c.hnull \/ hi2c = NULL THEN m
    ELSE IF ~ValidAddress(address) THEN m
    ELSE
    LET m1 == [m EXCEPT !.h = [ hi2c |-> hi2c, address |-> address,
                                lastValue |-> 0,
                                writeMode |-> DAC8571_CMD_WRITE_AND_UPDATE_DAC,
                                lastError |-> DAC8571_OK ]]
        m2 == IF flag THEN [m1 EXCEPT !.c.cleared = TRUE] ELSE m1
    IN  Return(ProbeLoop(m2, 1, outcome), NO_STATUS, 0)

\* The loop of DAC8571_WriteArray from index i (0-based) on; outcome[k] is
\* the status the k-th transmit ends with.
RECURSIVE WriteArrayLoop(_, _, _, _, _)
WriteArrayLoop(m, arr, length, i, outcome) ==
    IF i >= length THEN Return(m, HAL_OK, 0)
    ELSE LET m1 == DAC8571_Write(m, Elements(arr)[i + 1], outcome[i + 1])
         IN  IF m1.c.status # HAL_OK
             THEN m1
             ELSE WriteArrayLoop(m1, arr, length, i + 1, outcome)

\* A faulty variant: the ceiling is off by one (length >= 14 is refused).
DAC8571_WriteArray_CeilingOffByOne(m, arr, length, outcome) ==
    IF m.c.hnull \/ arr = NULL \/ length = 0 THEN Return(m, HAL_ERROR, 0)
    ELSE IF length >= MAX_ARRAY_LENGTH
    THEN Return([m EXCEPT !.h.lastError = DAC8571_BUFFER_ERROR], HAL_ERROR, 0)
    ELSE WriteArrayLoop(m, arr, length, 0, outcome)

DAC8571_WriteArray(m, arr, length, outcome) ==
    IF m.c.hnull \/ arr = NULL \/ length = 0 THEN Return(m, HAL_ERROR, 0)
    ELSE IF length > MAX_ARRAY_LENGTH
    THEN Return([m EXCEPT !.h.lastError = DAC8571_BUFFER_ERROR], HAL_ERROR, 0)
    ELSE WriteArrayLoop(m, arr, length, 0, outcome)

\* A faulty variant: the low byte first.
Combine_LowByteFirst(received_data) ==
    (received_data[2] * U8 + received_data[1]) % U16

\* (received_data[0] << 8) | received_data[1], as a uint16_t.
Combine(received_data) == (received_data[1] * U8 + received_data[2]) % U16

DAC8571_Read(m, third, st) ==
    IF m.c.hnull THEN Return(m, NO_STATUS, 0)
    ELSE
    LET m1 == HAL_I2C_Master_Receive(m, DevAddress(m.h) + 1, third, st)
    IN  IF st # HAL_OK
        THEN Return([m1 EXCEPT !.h.lastError = DAC8571_I2C_ERROR], NO_STATUS, 0)
        ELSE Return([m1 EXCEPT !.h.lastError = DAC8571_OK], NO_STATUS,
                    Combine(m1.c.rx))

\* voltage < 0.0f || voltage > DAC8571_REF_VOLTAGE, for voltage = v[1] / v[2].
VoltageOutOfRange(v) ==
    v[1] < 0 \/ v[1] * REF_VOLTAGE_DEN > REF_VOLTAGE_NUM * v[2]

\* A faulty variant: the product rounded to the nearest integer.
VoltageToCode_RoundsToNearest(v) ==
    ((2 * v[1] * REF_VOLTAGE_DEN * FULL_SCALE + v[2] * REF_VOLTAGE_NUM)
        \div (2 * v[2] * REF_VOLTAGE_NUM)) % U16

\* (uint16_t)((voltage / DAC8571_REF_VOLTAGE) * 65535): the conversion to an
\* integer drops the fraction. The quotient and the product are computed in
\* double; for a float voltage in range the exact product voltage * 26214
\* has at most 39 significant bits, so the double result is on the same side
\* of every integer as the exact one (and equal to it at 0.5, 1, 1.5, 2 and
\* 2.5 V, where it is an integer), and the code is the exact floor.
VoltageToCode(v) ==
    ((v[1] * REF_VOLTAGE_DEN * FULL_SCALE) \div (v[2] * REF_VOLTAGE_NUM)) % U16

DAC8571_SetVoltage(m, v, st) ==
    IF m.c.hnull \/ VoltageOutOfRange(v) THEN Return(m, HAL_ERROR, 0)
    ELSE DAC8571_Write(m, VoltageToCode(v), st)

\* A faulty variant: every byte up to the largest command byte is accepted
\* (the test DAC8571_SelfTest applies to its own inputs).
ValidWriteMode_UpToLargest(mode) == mode <= DAC8571_CMD_BROADCAST_PWDN_ALL

\* The switch of DAC8571_SetWriteMode: the cases that are not the default.
ValidWriteMode(mode) ==
    \/ mode = DAC8571_CMD_WRITE_TMP
    \/ mode = DAC8571_CMD_WRITE_TMP_PWDN
    \/ mode = DAC8571_CMD_WRITE_AND_UPDATE_DAC
    \/ mode = DAC8571_CMD_WRITE_UPDATE_PWDN
    \/ mode = DAC8571_CMD_UPDATE_FROM_TMP
    \/ mode = DAC8571_CMD_BROADCAST_WRITE_TMP
    \/ mode = DAC8571_CMD_BROADCAST_WRITE_UPDATE
    \/ mode = DAC8571_CMD_BROADCAST_PWDN_ALL

DAC8571_SetWriteMode(m, mode) ==
    IF m.c.hnull THEN Return(m, HAL_ERROR, 0)
    ELSE IF ValidWriteMode(mode)
    THEN Return([m EXCEPT !.h.writeMode = mode], HAL_OK, 0)
    ELSE Return(m, HAL_ERROR, 0)

\* A faulty variant: the number of the mode used as its 3-bit field.
PdField_ModeNumber(pdMode) ==
    IF pdMode \in PowerDownModes THEN pdMode ELSE -1

\* The switch of DAC8571_PowerMode: the 3-bit field each case shifts to bits
\* 15..13 (-1: the default case).
PdField(pdMode) ==
    CASE pdMode = DAC8571_PD_LOW_POWER -> 0
      [] pdMode = DAC8571_PD_FAST -> 1
      [] pdMode = DAC8571_PD_1_KOHM -> 2
      [] pdMode = DAC8571_PD_100_KOHM -> 6
      [] pdMode = DAC8571_PD_HI_Z -> 7
      [] OTHER -> -1

\* field << 13, as a uint16_t.
PdValue(field) == (field * 8192) % U16

\* writeMode is assigned before the switch looks at pdMode.
DAC8571_PowerMode(m, pdMode, st) ==
    IF m.c.hnull THEN Return(m, HAL_ERROR, 0)
    ELSE
    LET m1 == [m EXCEPT !.h.writeMode = DAC8571_CMD_WRITE_TMP_PWDN]
    IN  IF PdField(pdMode) = -1
        THEN Return(m1, HAL_ERROR, 0)
        ELSE DAC8571_Write(m1, PdValue(PdField(pdMode)), st)

\* A faulty variant: waking up selects write-and-update before it writes.
DAC8571_WakeUp_LeavesPowerDown(m, value, st) ==
    IF m.c.hnull THEN Return(m, HAL_ERROR, 0)
    ELSE DAC8571_Write(
             [m EXCEPT !.h.writeMode = DAC8571_CMD_WRITE_AND_UPDATE_DAC],
             value, st)

DAC8571_WakeUp(m, value, st) ==
    IF m.c.hnull THEN Return(m, HAL_ERROR, 0)
    ELSE DAC8571_Write(m, value, st)

DAC8571_Reset(m, st) ==
    IF m.c.hnull THEN Return(m, HAL_ERROR, 0)
    ELSE DAC8571_Write(m, 0, st)

\* A faulty variant: the error is returned and not cleared.
DAC8571_GetLastError_KeepsError(m) ==
    IF m.c.hnull THEN Return(m, NO_STATUS, DAC8571_ADDRESS_ERROR)
    ELSE Return(m, NO_STATUS, m.h.lastError)

DAC8571_GetLastError(m) ==
    IF m.c.hnull THEN Return(m, NO_STATUS, DAC8571_ADDRESS_ERROR)
    ELSE Return([m EXCEPT !.h.lastError = DAC8571_OK], NO_STATUS, m.h.lastError)

(***************************************************************************)
(* What the environment chooses                                            *)
(***************************************************************************)
\* The statuses n transactions end with when the k-th is the first to fail,
\* with st (k = 0: none fails). What follows the first failure is never run.
FirstFailure(n, k, st) == [i \in 1..n |-> IF i = k THEN st ELSE HAL_OK]

\* The statuses the presence probes end with when the first k fail with st.
\* What follows the first success is never run.
FailedProbes(k, st) == [i \in 1..max_attempts |-> IF i <= k THEN st ELSE HAL_OK]

\* The answers offered to the presence probes of one DAC8571_Init, and to
\* the n transmits of one DAC8571_WriteArray.
ProbeOutcomes ==
    {FailedProbes(k, st) : k \in 0..max_attempts, st \in FailureInputs}

TransmitOutcomes(n) ==
    {FirstFailure(MAX_ARRAY_LENGTH, k, st) : k \in 0..n, st \in ArrayFailureInputs}

\* A pointer argument in the call's record: 0 for a null pointer.
Ptr(p) == IF p = NULL THEN 0 ELSE 1

(***************************************************************************)
(* The actions: one per API function. The caller binds the handle with     *)
(* DAC8571_Init before it asks for anything that reaches the bus (a call   *)
(* through a null transport pointer is undefined in the HAL); calls that   *)
(* stay off the bus are made on an unbound handle too.                     *)
(***************************************************************************)
Bound(h) == h.hi2c # NULL

\* The number of bus transactions a call made.
Transactions(m) == Len(m.c.sts) + Len(m.c.probes)

Run(m) == (Transactions(m) > 0 => Bound(hdac8571) \/ m.c.op = "Init") /\ Commit(m)

\* The environment answers the transactions a call makes, and only those:
\* quiet is the call with every transaction succeeding, and a call that
\* makes none is offered no choice of answers.
Answers(quiet, choices, none) == IF Transactions(quiet) > 0 THEN choices ELSE {none}

AllOK == FirstFailure(MAX_ARRAY_LENGTH, 0, HAL_OK)

CallInit ==
    \E in \in InitInputs :
      LET hi2c == in[1]
          address == in[2]
          E(flag, outcome) ==
              DAC8571_Init(Enter("Init", FALSE, address, Ptr(hi2c)),
                           hi2c, address, flag, outcome)
          quiet == E(FALSE, FailedProbes(0, HAL_OK))
      IN  \E flag \in Answers(quiet, BOOLEAN, FALSE),
             outcome \in Answers(quiet, ProbeOutcomes, FailedProbes(0, HAL_OK)) :
              Run(E(flag, outcome))

CallWrite ==
    \E value \in Values, st \in StatusInputs :
        LET m == DAC8571_Write(Enter("Write", FALSE, value, 0), value, st)
        IN  Run(m)

CallIsConnected ==
    \E st \in StatusInputs :
        LET m == DAC8571_IsConnected(Enter("IsConnected", FALSE, 0, 0), st)
        IN  Run(m)

CallWriteArray ==
    \E in \in ArrayInputs :
      LET arr == in[1]
          length == in[2]
          E(outcome) ==
              DAC8571_WriteArray(Enter("WriteArray", FALSE, length, Ptr(arr)),
                                 arr, length, outcome)
          quiet == E(AllOK)
      IN  \E outcome \in Answers(quiet, TransmitOutcomes(Transactions(quiet)), AllOK) :
              Run(E(outcome))

CallRead ==
    \E third \in ThirdBytes, st \in StatusInputs :
        LET m == DAC8571_Read(Enter("Read", FALSE, 0, 0), third, st)
        IN  Run(m)

CallSetVoltage ==
    \E v \in Voltages :
      LET E(st) == DAC8571_SetVoltage(Enter("SetVoltage", FALSE, v[1], v[2]), v, st)
      IN  \E st \in Answers(E(HAL_OK), StatusInputs, HAL_OK) : Run(E(st))

CallSetWriteMode ==
    \E mode \in ModeInputs :
        LET m == DAC8571_SetWriteMode(Enter("SetWriteMode", FALSE, mode, 0), mode)
        IN  Run(m)

CallPowerMode ==
    \E pdMode \in PdInputs :
      LET E(st) == DAC8571_PowerMode(Enter("PowerMode", FALSE, pdMode, 0), pdMode, st)
      IN  \E st \in Answers(E(HAL_OK), StatusInputs, HAL_OK) : Run(E(st))

CallWakeUp ==
    \E value \in Values, st \in StatusInputs :
        LET m == DAC8571_WakeUp(Enter("WakeUp", FALSE, value, 0), value, st)
        IN  Run(m)

CallReset ==
    \E st \in StatusInputs :
        LET m == DAC8571_Reset(Enter("Reset", FALSE, 0, 0), st)
        IN  Run(m)

CallGetLastError ==
    LET m == DAC8571_GetLastError(Enter("GetLastError", FALSE, 0, 0))
    IN  Run(m)

\* Any function called with a null handle pointer (the other arguments are
\* valid ones; no function looks at them before it looks at the handle). No
\* such call reads or writes the caller's handle object, so the calls are
\* offered in the states where that object is not bound yet.
CallWithNullHandle ==
    \E st \in {HAL_OK} :
      /\ ~Bound(hdac8571)
      /\ \/ Run(DAC8571_Init(Enter("Init", TRUE, ADDR_A0_LOW, Ptr(I2C1)),
                               I2C1, ADDR_A0_LOW, FALSE, FailedProbes(0, st)))
           \/ Run(DAC8571_Write(Enter("Write", TRUE, 0, 0), 0, st))
           \/ Run(DAC8571_IsConnected(Enter("IsConnected", TRUE, 0, 0), st))
           \/ Run(DAC8571_WriteArray(Enter("WriteArray", TRUE, 1, Ptr(TEST_ARRAY)),
                                     TEST_ARRAY, 1,
                                     FirstFailure(MAX_ARRAY_LENGTH, 0, st)))
           \/ Run(DAC8571_Read(Enter("Read", TRUE, 0, 0), 0, st))
           \/ Run(DAC8571_SetVoltage(Enter("SetVoltage", TRUE, 0, 1), <<0, 1>>, st))
           \/ Run(DAC8571_SetWriteMode(Enter("SetWriteMode", TRUE, 0, 0), 0))
           \/ Run(DAC8571_PowerMode(Enter("PowerMode", TRUE, 0, 0), 0, st))
           \/ Run(DAC8571_WakeUp(Enter("WakeUp", TRUE, 0, 0), 0, st))
           \/ Run(DAC8571_Reset(Enter("Reset", TRUE, 0, 0), st))
           \/ Run(DAC8571_GetLastError(Enter("GetLastError", TRUE, 0, 0)))

Next ==
    \/ CallInit
    \/ CallWrite
    \/ CallIsConnected
    \/ CallWriteArray
    \/ CallRead
    \/ CallSetVoltage
    \/ CallSetWriteMode
    \/ CallPowerMode
    \/ CallWakeUp
    \/ CallReset
    \/ CallGetLastError
    \/ CallWithNullHandle

Spec == Init /\ [][Next]_vars

(***************************************************************************)
(* Types                                                                   *)
(***************************************************************************)
TypeOK ==
    /\ hdac8571.hi2c \in {NULL, I2C1}
    /\ hdac8571.address \in 0..(U16 - 1)
    /\ hdac8571.lastValue \in 0..(U16 - 1)
    /\ hdac8571.writeMode \in 0..(U8 - 1)
    /\ devReg \in (0..(U8 - 1)) \X (0..(U8 - 1))

(***************************************************************************)
(* What the claims speak of                                                *)
(***************************************************************************)
\* The last call was op, made with a handle pointer that is not null.
Called(c, op) == c.op = op /\ ~c.hnull

\* The call ended in the success status.
Succeeded(c) == c.status = HAL_OK

\* The functions that end with DAC8571_Write (one transmit when they reach it).
WriteFamily == {"Write", "WakeUp", "Reset", "SetVoltage", "PowerMode"}

(***************************************************************************)
(* C1  DAC8571_Write on a bound handle issues exactly one transmit. If the *)
(* transport reports success, lastValue is the value written, lastError is *)
(* OK and the call returns success; if it reports a failure, lastError is  *)
(* I2C_ERROR, the call returns a failure status and lastValue is what it   *)
(* was before the call. writeMode and address are unchanged either way.    *)
(***************************************************************************)
C1_WriteStep ==
    (Called(call', "Write") /\ Bound(hdac8571)) =>
        /\ Len(call'.tx) = 1
        /\ Len(call'.sts) = 1
        /\ call'.sts[1] = HAL_OK =>
              /\ hdac8571'.lastValue = call'.a1
              /\ hdac8571'.lastError = DAC8571_OK
              /\ call'.status = HAL_OK
        /\ call'.sts[1] # HAL_OK =>
              /\ hdac8571'.lastError = DAC8571_I2C_ERROR
              /\ call'.status # HAL_OK
              /\ hdac8571'.lastValue = hdac8571.lastValue
        /\ hdac8571'.writeMode = hdac8571.writeMode
        /\ hdac8571'.address = hdac8571.address

C1_WriteContract == [][C1_WriteStep]_vars

\* A Write has failed on a bound handle that holds another value than the one
\* the call was to write.
C1_Witness ==
    /\ Called(call, "Write")
    /\ Bound(hdac8571)
    /\ call.status = HAL_TIMEOUT
    /\ hdac8571.lastError = DAC8571_I2C_ERROR
    /\ hdac8571.lastValue # call.a1

(***************************************************************************)
(* C2  After a failed bus operation on a bound handle (a Write, Read or    *)
(* IsConnected whose transport call fails) the next GetLastError returns   *)
(* I2C_ERROR, and a GetLastError that comes right after a GetLastError     *)
(* returns OK; after a successful Write the next GetLastError returns OK   *)
(* (and so does the one after it).  A second GetLastError in a row on an   *)
(* OK handle changes nothing, so the clear it relies on is stated on the   *)
(* step itself: GetLastError returns the stored code and leaves OK behind. *)
(***************************************************************************)
FailedBusOperation(c) ==
    \/ Called(c, "Write") /\ Len(c.sts) = 1 /\ c.sts[1] # HAL_OK
    \/ Called(c, "Read") /\ Len(c.sts) = 1 /\ c.sts[1] # HAL_OK
    \/ Called(c, "IsConnected") /\ Len(c.probes) = 1 /\ c.probes[1] # HAL_OK

C2_ErrorStep ==
    Called(call', "GetLastError") =>
        /\ FailedBusOperation(call) => call'.ret = DAC8571_I2C_ERROR
        /\ Called(call, "GetLastError") => call'.ret = DAC8571_OK
        /\ Called(call, "Write") /\ Succeeded(call) => call'.ret = DAC8571_OK
        /\ call'.ret = hdac8571.lastError
        /\ hdac8571'.lastError = DAC8571_OK

C2_ReadAndClear == [][C2_ErrorStep]_vars

\* GetLastError has just returned I2C_ERROR and left OK behind.
C2_Witness ==
    /\ Called(call, "GetLastError")
    /\ call.ret = DAC8571_I2C_ERROR
    /\ hdac8571.lastError = DAC8571_OK

(***************************************************************************)
(* C3  lastError is OK after every operation that returns success (Write,  *)
(* Read with a successful receive, IsConnected, SetWriteMode, PowerMode,   *)
(* WakeUp, Reset, SetVoltage, WriteArray) and after GetLastError.          *)
(***************************************************************************)
SuccessfulOperation(c) ==
    \/ c.op \in WriteFamily \cup {"WriteArray", "IsConnected", "SetWriteMode"}
       /\ ~c.hnull /\ Succeeded(c)
    \/ Called(c, "Read") /\ Len(c.sts) = 1 /\ c.sts[1] = HAL_OK
    \/ Called(c, "GetLastError")

C3_ClearedBySuccess ==
    SuccessfulOperation(call) => hdac8571.lastError = DAC8571_OK

(***************************************************************************)
(* C4  As claimed: DAC8571_Init with a handle, a transport and an address  *)
(* in {0x4C, 0x4E} leaves the handle bound to that transport and address   *)
(* with lastValue = 0, writeMode = 0x10 and lastError = OK, whatever the   *)
(* presence probes answer.                                                 *)
(***************************************************************************)
InitAccepted(c) == Called(c, "Init") /\ c.a2 = 1 /\ c.a1 \in {76, 78}

InitBinds(c, h) ==
    /\ h.hi2c = I2C1
    /\ h.address = c.a1
    /\ h.lastValue = 0
    /\ h.writeMode = 16

InvalidArgument(c) ==
    \/ Called(c, "Init") /\ (c.a2 = 0 \/ c.a1 \notin {76, 78})
    \/ Called(c, "SetVoltage") /\ (c.a1 < 0 \/ 2 * c.a1 > 5 * c.a2)
    \/ Called(c, "SetWriteMode") /\ c.a1 \notin {0, 1, 16, 17, 32, 48, 49, 51}
    \/ Called(c, "PowerMode") /\ c.a1 \notin {0, 1, 2, 3, 4}
    \/ Called(c, "WriteArray") /\ (c.a2 = 0 \/ c.a1 = 0)

OffTheBus(c) == c.tx = <<>> /\ c.sts = <<>> /\ c.rx = <<>> /\ c.probes = <<>>

C5_RejectionStep ==
    /\ InvalidArgument(call') => OffTheBus(call') /\ hdac8571' = hdac8571
    /\ Called(call', "WriteArray") /\ call'.a2 = 1 /\ call'.a1 > 14 =>
          /\ OffTheBus(call')
          /\ hdac8571' = [hdac8571 EXCEPT !.lastError = DAC8571_BUFFER_ERROR]

C5_RejectionsChangeNothing == [][C5_RejectionStep]_vars

(***************************************************************************)
(* C6  DAC8571_PowerMode with one of the 5 power-down modes, whatever the  *)
(* write mode was, sets writeMode to 0x01 and issues exactly one transmit, *)
(* of the frame [0x01, code << 5, 0x00] with code = 000 (low power), 001   *)
(* (fast), 010 (1 kOhm), 110 (100 kOhm), 111 (hi-Z): the 16-bit value has  *)
(* the code in bits 15..13 and zeros in bits 12..0.                        *)
(***************************************************************************)
PowerDownCode(pdMode) ==
    CASE pdMode = 0 -> 0 [] pdMode = 1 -> 1 [] pdMode = 2 -> 2
      [] pdMode = 3 -> 6 [] pdMode = 4 -> 7

C6_PowerModeFrame ==
    (Called(call, "PowerMode") /\ call.a1 \in {0, 1, 2, 3, 4}
        /\ Bound(hdac8571)) =>
        /\ hdac8571.writeMode = 1
        /\ Len(call.tx) = 1
        /\ call.tx[1][2] = <<1, PowerDownCode(call.a1) * 32, 0>>
        /\ call.sts[1] = HAL_OK =>
              hdac8571.lastValue = PowerDownCode(call.a1) * 8192

\* PowerMode(100 kOhm) has sent [0x01, 0xC0, 0x00].
C6_Witness ==
    /\ Called(call, "PowerMode")
    /\ call.a1 = DAC8571_PD_100_KOHM
    /\ call.tx = << <<DevAddress(hdac8571), <<1, 192, 0>> >> >>
    /\ Succeeded(call)

(***************************************************************************)
(* C7  DAC8571_SetWriteMode returns success and sets writeMode to its      *)
(* argument exactly when the argument is one of 0x00, 0x01, 0x10, 0x11,    *)
(* 0x20, 0x30, 0x31, 0x33; for any other byte it returns failure and       *)
(* writeMode keeps its value. So writeMode is one of those 8 bytes in      *)
(* every state.                                                            *)
(***************************************************************************)
C7_SetWriteModeStep ==
    /\ Called(call', "SetWriteMode") =>
          IF call'.a1 \in {0, 1, 16, 17, 32, 48, 49, 51}
          THEN call'.status = HAL_OK /\ hdac8571'.writeMode = call'.a1
          ELSE call'.status # HAL_OK /\ hdac8571'.writeMode = hdac8571.writeMode
    /\ hdac8571'.writeMode \in {0, 1, 16, 17, 32, 48, 49, 51}

C7_SetWriteModeExact == [][C7_SetWriteModeStep]_vars

\* SetWriteMode(0x32) has been refused and the mode is still 0x31.
C7_Witness ==
    /\ Called(call, "SetWriteMode")
    /\ call.a1 = 50
    /\ call.status = HAL_ERROR
    /\ hdac8571.writeMode = DAC8571_CMD_BROADCAST_WRITE_UPDATE

(***************************************************************************)
(* C8  DAC8571_WriteArray with an array and a length n in 1..14 transmits  *)
(* elements 0, 1, ... in index order. If all n transmits succeed it        *)
(* returns success after exactly n transmits, with lastValue the last      *)
(* element. If the transmit of element k is the first to fail it returns   *)
(* that failure's status after exactly k + 1 transmits, and lastValue is   *)
(* element k - 1 (what it was before the call when k = 0). With length 0,  *)
(* a null array or a length above 14 it returns failure with no transmit.  *)
(***************************************************************************)
\* The frame that carries array element i (0-based) under write mode wm.
ElementFrame(wm, i) == <<wm, testArray[i + 1] \div 256, testArray[i + 1] % 256>>

C8_WriteArrayStep ==
    Called(call', "WriteArray") =>
        LET n == call'.a1
            t == Len(call'.sts)
        IN  IF call'.a2 = 1 /\ n \in 1..14 /\ Bound(hdac8571)
            THEN /\ t \in 1..n
                 /\ Len(call'.tx) = t
                 /\ \A i \in 1..t :
                       call'.tx[i][2] = ElementFrame(hdac8571.writeMode, i - 1)
                 /\ \A i \in 1..(t - 1) : call'.sts[i] = HAL_OK
                 /\ call'.status = call'.sts[t]
                 /\ call'.sts[t] = HAL_OK =>
                       t = n /\ hdac8571'.lastValue = testArray[n]
                 /\ call'.sts[t] # HAL_OK =>
                       hdac8571'.lastValue =
                           IF t = 1 THEN hdac8571.lastValue ELSE testArray[t - 1]
            ELSE (call'.a2 = 0 \/ n = 0 \/ n > 14) =>
                    call'.status # HAL_OK /\ t = 0 /\ call'.tx = <<>>

C8_WriteArrayInOrder == [][C8_WriteArrayStep]_vars

\* WriteArray of 14 elements has stopped at the failure of element 13, the
\* last one, with element 12 in lastValue.
C8_Witness ==
    /\ Called(call, "WriteArray")
    /\ call.a1 = 14
    /\ Len(call.sts) = 14
    /\ call.status = HAL_TIMEOUT
    /\ hdac8571.lastValue = testArray[13]

(***************************************************************************)
(* C9  DAC8571_SetVoltage with a voltage v, 0 <= v <= 2.5, issues exactly  *)
(* one Write, of the code floor(v / 2.5 * 65535): the largest integer c    *)
(* with c * 2.5 <= v * 65535, so 0 at v = 0 and 65535 at v = 2.5, never    *)
(* more than 16 bits. With v < 0 or v > 2.5 it returns failure and issues  *)
(* no Write. The voltage is the fraction a1 / a2 of the call.              *)
(***************************************************************************)
\* The 16-bit code a transmitted frame carries.
CodeOf(frame) == frame[2][2] * 256 + frame[2][3]

C9_SetVoltageCode ==
    (Called(call, "SetVoltage") /\ Bound(hdac8571)) =>
        IF call.a1 >= 0 /\ 2 * call.a1 <= 5 * call.a2
        THEN /\ Len(call.tx) = 1
             /\ LET c == CodeOf(call.tx[1])
                IN  /\ c \in 0..65535
                    /\ c * 5 * call.a2 <= call.a1 * 2 * 65535
                    /\ (c + 1) * 5 * call.a2 > call.a1 * 2 * 65535
                    /\ call.a1 = 0 => c = 0
                    /\ 2 * call.a1 = 5 * call.a2 => c = 65535
                    /\ Succeeded(call) => hdac8571.lastValue = c
        ELSE call.status # HAL_OK /\ OffTheBus(call)

\* SetVoltage(1.25 V) has written 0x7FFF (32767.5 with its fraction dropped).
C9_Witness ==
    /\ Called(call, "SetVoltage")
    /\ call.a1 = 5 /\ call.a2 = 4
    /\ Succeeded(call)
    /\ hdac8571.lastValue = 32767

(***************************************************************************)
(* C10  Round trip: a successful Write(x) followed at once by a Read whose *)
(* receive succeeds returns x (and so does a Read after any other call     *)
(* that ended with a successful transmit of x). Write sends x as [high     *)
(* byte, low byte] after the command byte; Read combines the first two of  *)
(* the 3 received bytes big-endian and ignores the third. A Read whose     *)
(* receive fails returns 0 and sets lastError = I2C_ERROR. No Read changes *)
(* lastValue or writeMode.                                                 *)
(***************************************************************************)
C10_RoundTripStep ==
    /\ (Called(call', "Write") /\ Bound(hdac8571)) =>
          call'.tx[1][2] =
              <<hdac8571.writeMode, call'.a1 \div 256, call'.a1 % 256>>
    /\ (Called(call', "Read") /\ Bound(hdac8571)) =>
          /\ Len(call'.sts) = 1
          /\ call'.sts[1] = HAL_OK =>
                /\ Len(call'.rx) = 3
                /\ call'.ret = call'.rx[1] * 256 + call'.rx[2]
                /\ Called(call, "Write") /\ Succeeded(call) =>
                      call'.ret = call.a1
                /\ (call.op \in WriteFamily \cup {"WriteArray"} /\ ~call.hnull
                      /\ Succeeded(call)) =>
                      call'.ret = hdac8571.lastValue
          /\ call'.sts[1] # HAL_OK =>
                call'.ret = 0 /\ hdac8571'.lastError = DAC8571_I2C_ERROR
          /\ hdac8571'.lastValue = hdac8571.lastValue
          /\ hdac8571'.writeMode = hdac8571.writeMode

FailedProbeCount(c) == Cardinality({k \in 1..Len(c.probes) : c.probes[k] # HAL_OK})

DelayAfterEachFailure(c) ==
    c.delays = [k \in 1..FailedProbeCount(c) |-> [after |-> k, ms |-> 25]]

C11_InitProbesBounded ==
    call.op = "Init" =>
        IF InitAccepted(call)
        THEN /\ Len(call.probes) \in 1..5
             /\ \A k \in 1..(Len(call.probes) - 1) : call.probes[k] # HAL_OK
             /\ DelayAfterEachFailure(call)
        ELSE call.probes = <<>> /\ call.delays = <<>>

\* Init has returned after five failed probes, each followed by a delay.
C11_Witness ==
    /\ InitAccepted(call)
    /\ Len(call.probes) = 5
    /\ FailedProbeCount(call) = 5
    /\ Len(call.delays) = 5

(***************************************************************************)
(* C12  Every frame a call transmits carries, as its command byte, the     *)
(* writeMode the handle holds when DAC8571_Write builds the frame: the     *)
(* writeMode before the call for Write, WakeUp, Reset, SetVoltage and      *)
(* WriteArray, which never change it, and 0x01 for PowerMode, which sets   *)
(* it before it writes. Power-down framing is sticky: PowerMode leaves     *)
(* writeMode = 0x01, and from writeMode = 0x01 every call that is neither  *)
(* a successful SetWriteMode nor an accepted Init leaves 0x01 and sends    *)
(* only frames with command byte 0x01. WakeUp(value) and Reset() do what   *)
(* Write(value) and Write(0) do under the current writeMode.               *)
(***************************************************************************)
FramedCalls == {"Write", "WakeUp", "Reset", "SetVoltage", "WriteArray"}

CommandByte(frame) == frame[2][1]

\* What Write(value) does to a bound handle, read off a step.
StepIsWrite(value) ==
    /\ call'.tx = << <<(hdac8571.address * 2) % 65536,
                       <<hdac8571.writeMode, (value \div 256) % 256, value % 256>> >> >>
    /\ Len(call'.sts) = 1
    /\ call'.status = call'.sts[1]
    /\ hdac8571' = IF call'.sts[1] = HAL_OK
                   THEN [hdac8571 EXCEPT !.lastValue = value, !.lastError = 0]
                   ELSE [hdac8571 EXCEPT !.lastError = 129]
    /\ devReg' = IF call'.sts[1] = HAL_OK
                 THEN <<(value \div 256) % 256, value % 256>>
                 ELSE devReg

ChangesWriteMode(c) ==
    \/ Called(c, "SetWriteMode") /\ Succeeded(c)
    \/ InitAccepted(c)

C12_FramingStep ==
    /\ \A i \in 1..Len(call'.tx) :
          CommandByte(call'.tx[i]) = hdac8571'.writeMode
    /\ call'.op \in FramedCalls =>
          /\ hdac8571'.writeMode = hdac8571.writeMode
          /\ \A i \in 1..Len(call'.tx) :
                CommandByte(call'.tx[i]) = hdac8571.writeMode
    /\ Called(call', "PowerMode") => hdac8571'.writeMode = 1
    /\ (hdac8571.writeMode = 1 /\ ~ChangesWriteMode(call')) =>
          /\ hdac8571'.writeMode = 1
          /\ \A i \in 1..Len(call'.tx) : CommandByte(call'.tx[i]) = 1
    /\ (Called(call', "WakeUp") /\ Bound(hdac8571)) => StepIsWrite(call'.a1)
    /\ (Called(call', "Reset") /\ Bound(hdac8571)) => StepIsWrite(0)

====
